---- MODULE Spec2Model ----
(***************************************************************************)
(* Event publication and webhook delivery of the hub                       *)
(* (hub/src/models/EventManager.js, the event routes of api/routes.js and  *)
(* the background sweep of startBackgroundJobs).                           *)
(*                                                                         *)
(* The three tables event_queue, event_subscriptions and                   *)
(* event_delivery_log are the shared state.  Every db.query and every      *)
(* webhook call is an await, so a handler is split at its awaits: one      *)
(* action per database statement / webhook response, interleaved freely    *)
(* between the publish handler and the overlapping sweep callbacks.        *)
(***************************************************************************)
EXTENDS Integers, Sequences, FiniteSets, Bags, TLC

(***************************************************************************)
(* Bounds of the model                                                     *)
(***************************************************************************)
MaxEvents == 2          \* rows of event_queue
MaxSubs == 2            \* rows of event_subscriptions
MaxRows == 3            \* rows of both tables together
MaxTicks == 1           \* how often the clock advances
MaxFaults == 1          \* store statements that reject
MaxIncidents == 1       \* clock advances and rejected statements together
MaxOverlap == 2         \* handlers and sweep callbacks running at once
MaxDueRows == 3         \* rows of the tables getPendingEvents is tried on
MaxHistoryRows == 3     \* rows of the tables getEventHistory is tried on
MaxLiveEvents == 11     \* events in the backlog of the sweep
MaxLiveFailures == 2    \* webhook calls that fail while the backlog is swept

(***************************************************************************)
(* Program constants                                                       *)
(***************************************************************************)
DefaultMaxRetries == 3  \* event_queue.max_retries DEFAULT 3
RetryDelay == 5         \* INTERVAL '5 minutes' of scheduleRetry
SweepLimit == 10        \* getPendingEvents(10) of the sweep
Created == 201          \* res.status(201) of POST /events
BadRequest == 400       \* res.status(400) of its catch block

NULL == "NULL"
NoTime == 0 - 1         \* a NULL timestamp column

\* minutes the clock advances in one step, and how far ahead a publisher
\* schedules a deferred event
TickStep == RetryDelay
ScheduleAhead == RetryDelay

EventTypes == {"order.created"}
Payloads == {[id |-> <<"number", "1">>, status |-> <<"string", "new">>]}

\* filter_criteria: NULL, or the entries of a flat object
NoFilter == [null |-> TRUE, entries |-> {}]
StatusShipped == [null |-> FALSE,
                  entries |-> {<<"status", <<"string", "shipped">>>>}]

\* what a subscriber asks for: the event type and the filter
Subscriptions == {<<"order.created", NoFilter>>,
                  <<"order.created", StatusShipped>>,
                  <<"order.shipped", NoFilter>>}
Urls == {"http://app/hook"}

\* the registered applications, as authenticateApp identifies them, and the
\* one that publishes and subscribes where a single application does
Apps == {"app-a", "app-b"}
App == "app-a"

\* max_retries of the rows that exist before the hub starts
SeedMaxRetries == {2}

Publishers == {"publish"}
Sweepers == {"sweep1", "sweep2"}
Workers == Publishers \cup Sweepers

VARIABLES
    event_queue,            \* table event_queue, in created_at order; event_id = index
    event_subscriptions,    \* table event_subscriptions; subscription_id = index
    event_delivery_log,     \* table event_delivery_log, a bag of rows
    now,                    \* CURRENT_TIMESTAMP, in minutes
    pc,                     \* where each handler / sweep callback stands
    batch,                  \* events a worker still has to deliver, current first
    pass,                   \* locals of the running deliverEvent call
    attempts,               \* deliverToSubscriber calls that have not settled
    webhook_requests,       \* requests sent to the endpoints
    webhook_responses,      \* how the endpoints have answered
    unsubscribed,           \* rows of event_queue when unsubscribe first returned
    ticks,                  \* clock advances so far
    faults,                 \* rejected store statements so far
    publish_status,         \* status of the response to the latest POST /events,
                            \* 0 while it has none
    unsubscribe_returned,   \* what the latest unsubscribe returned, "none"
                            \* while none has returned
    history                 \* the rows the latest getEventHistory returned,
                            \* as their event_ids

vars == <<event_queue, event_subscriptions, event_delivery_log, now, pc, batch,
          pass, attempts, webhook_requests, webhook_responses, unsubscribed,
          ticks, faults, publish_status, unsubscribe_returned, history>>

(***************************************************************************)
(* Helpers                                                                 *)
(***************************************************************************)
EventIds == 1..Len(event_queue)
SubIds == 1..Len(event_subscriptions)

\* the locals of deliverEvent: the event row it read, the subscriptions it
\* loaded, and what has become of its deliveryPromises (failed: how many
\* logged a failed delivery; rejected: one of them rejected)
NoPass == [retry_count |-> 0, max_retries |-> 0, subscriptions |-> {},
           failed |-> 0, rejected |-> FALSE]

\* a freshly inserted event_queue row: the columns the INSERT does not name
\* take their defaults
NewEvent(type, source, payload, sched, maxRetries) ==
    [event_type |-> type, source_app_id |-> source, payload |-> payload,
     scheduled_for |-> sched,
     status |-> "pending", retry_count |-> 0, max_retries |-> maxRetries,
     processed_at |-> NoTime, error_message |-> NULL]

\* matchesFilter comparing with == instead of ===: 1 equals "1"
matchesFilterLoosely(payload, criteria) ==
    \A entry \in criteria.entries :
        /\ entry[1] \in DOMAIN payload
        /\ payload[entry[1]][2] = entry[2][2]

\* payload[key] === value for every entry of criteria
matchesFilter(payload, criteria) ==
    \A entry \in criteria.entries :
        /\ entry[1] \in DOMAIN payload
        /\ payload[entry[1]] = entry[2]

\* deliverToSubscriber without the filter check
PassesAnyFilter(e, s) == TRUE

\* the filter check at the head of deliverToSubscriber
PassesFilter(e, s) ==
    LET criteria == event_subscriptions[s].filter_criteria
    IN  IF criteria.null THEN TRUE
        ELSE matchesFilter(event_queue[e].payload, criteria)

\* getSubscriptions without the test of is_active
getSubscriptionsOfAnyState(eventType) ==
    {s \in SubIds : event_subscriptions[s].event_type = eventType}

\* SELECT ... WHERE event_type = $1 AND is_active = true
getSubscriptions(eventType) ==
    {s \in SubIds : /\ event_subscriptions[s].event_type = eventType
                    /\ event_subscriptions[s].is_active}

\* IsDue without the test of scheduled_for
IsDueWhenever(e) ==
    event_queue[e].status \in {"pending", "retrying"}

\* WHERE status IN ('pending', 'retrying')
\*   AND (scheduled_for IS NULL OR scheduled_for <= CURRENT_TIMESTAMP)
IsDue(e) ==
    /\ event_queue[e].status \in {"pending", "retrying"}
    /\ \/ event_queue[e].scheduled_for = NoTime
       \/ event_queue[e].scheduled_for <= now

Min(a, b) == IF a <= b THEN a ELSE b

\* getPendingEvents with ORDER BY created_at DESC
getPendingEventsNewestFirst(limit) ==
    LET ids == [i \in 1..Len(event_queue) |-> Len(event_queue) + 1 - i]
        due == SelectSeq(ids, IsDue)
    IN  SubSeq(due, 1, Min(limit, Len(due)))

\* getPendingEvents without its LIMIT
getPendingEventsUnlimited(limit) ==
    SelectSeq([i \in 1..Len(event_queue) |-> i], IsDue)

\* SELECT ... ORDER BY created_at ASC LIMIT $1
getPendingEvents(limit) ==
    LET ids == [i \in 1..Len(event_queue) |-> i]
        due == SelectSeq(ids, IsDue)
    IN  SubSeq(due, 1, Min(limit, Len(due)))

\* the outcomes a store statement can have; the statements that are let
\* reject are those of deliverEvent and of deliverToSubscriber
MayReject(n) ==
    /\ faults + n <= MaxFaults
    /\ ticks + faults + n <= MaxIncidents

StoreOutcomes == IF MayReject(1) THEN {TRUE, FALSE} ELSE {TRUE}

Fault(ok) == faults' = IF ok THEN faults ELSE faults + 1

\* the idle sweep callbacks are interchangeable: the next sweep takes the
\* first of them
Rank(w) == IF w = "sweep1" THEN 1 ELSE 2

Busy == {w \in Workers : pc[w] # "idle"}

OwnAttempts(w) == {a \in BagToSet(attempts) : a.owner = w}

(***************************************************************************)
(* Statements on event_queue                                               *)
(***************************************************************************)
updateEventStatus(eventId, status, errorMessage) ==
    event_queue' = [event_queue EXCEPT ![eventId] =
        [@ EXCEPT !.status = status,
                  !.processed_at = IF status \in {"completed", "failed"}
                                   THEN now ELSE NoTime,
                  !.error_message = errorMessage]]

\* scheduleRetry as updateEventStatus(eventId, 'retrying')
scheduleRetryStatusOnly(eventId) ==
    event_queue' = [event_queue EXCEPT ![eventId] =
        [@ EXCEPT !.status = "retrying",
                  !.processed_at = NoTime,
                  !.error_message = NULL]]

scheduleRetry(eventId) ==
    event_queue' = [event_queue EXCEPT ![eventId] =
        [@ EXCEPT !.status = "retrying",
                  !.retry_count = @ + 1,
                  !.scheduled_for = now + RetryDelay]]

\* logDelivery as an upsert on (event_id, subscription_id): the new row
\* replaces the earlier rows of the pair
logDeliveryReplacing(eventId, subscriptionId, status) ==
    LET others == {r \in BagToSet(event_delivery_log) :
                      ~(r.event_id = eventId /\ r.subscription_id = subscriptionId)}
    IN  event_delivery_log' =
            [r \in others |-> event_delivery_log[r]] (+)
            SetToBag({[event_id |-> eventId, subscription_id |-> subscriptionId,
                       status |-> status]})

\* logDelivery inserting the row twice
logDeliveryTwice(eventId, subscriptionId, status) ==
    event_delivery_log' = event_delivery_log (+)
        [r \in {[event_id |-> eventId, subscription_id |-> subscriptionId,
                 status |-> status]} |-> 2]

logDelivery(eventId, subscriptionId, status) ==
    event_delivery_log' = event_delivery_log (+)
        SetToBag({[event_id |-> eventId, subscription_id |-> subscriptionId,
                   status |-> status]})

(***************************************************************************)
(* Initial state: the hub is constructed over an existing database, which  *)
(* holds no subscription and at most one event nobody has delivered yet    *)
(***************************************************************************)
Init ==
    /\ event_queue \in {<<>>} \cup
          {<<NewEvent(t, App, p, NoTime, m)>> :
              t \in EventTypes, p \in Payloads, m \in SeedMaxRetries}
    /\ event_subscriptions = <<>>
    /\ event_delivery_log = EmptyBag
    /\ now = 0
    /\ pc = [w \in Workers |-> "idle"]
    /\ batch = [w \in Workers |-> <<>>]
    /\ pass = [w \in Workers |-> NoPass]
    /\ attempts = EmptyBag
    /\ webhook_requests = EmptyBag
    /\ webhook_responses = EmptyBag
    /\ unsubscribed = <<>>
    /\ ticks = 0
    /\ faults = 0
    /\ publish_status = 0
    /\ unsubscribe_returned = "none"
    /\ history = <<>>

(***************************************************************************)
(* Subscription registry                                                   *)
(***************************************************************************)
Subscribe(app, type, url, criteria) ==
    /\ Len(event_subscriptions) < MaxSubs
    /\ Len(event_subscriptions) + Len(event_queue) < MaxRows
    /\ event_subscriptions' = Append(event_subscriptions,
          [app_id |-> app, event_type |-> type, webhook_url |-> url,
           filter_criteria |-> criteria, is_active |-> TRUE])
    /\ unsubscribed' = Append(unsubscribed, NoTime)
    /\ UNCHANGED <<event_queue, event_delivery_log, now, pc, batch, pass,
                   attempts, webhook_requests, webhook_responses, ticks, faults,
                   publish_status,
                   unsubscribe_returned, history>>

\* unsubscribe when the UPDATE has no WHERE clause
UnsubscribeEveryRow(s) ==
    /\ s \in SubIds
    /\ event_subscriptions' =
          [t \in SubIds |-> [event_subscriptions[t] EXCEPT !.is_active = FALSE]]
    /\ unsubscribed' = [t \in SubIds |->
                           IF unsubscribed[t] = NoTime THEN Len(event_queue)
                           ELSE unsubscribed[t]]
    /\ unsubscribe_returned' = "true"
    /\ UNCHANGED history
    /\ UNCHANGED <<event_queue, event_delivery_log, now, pc, batch, pass,
                   attempts, webhook_requests, webhook_responses, ticks, faults,
                   publish_status>>

\* unsubscribe of a subscription_id that has a row: rowCount is 1
Unsubscribe(s) ==
    /\ s \in SubIds
    /\ event_subscriptions' = [event_subscriptions EXCEPT ![s].is_active = FALSE]
    /\ unsubscribed' = [unsubscribed EXCEPT ![s] =
                           IF @ = NoTime THEN Len(event_queue) ELSE @]
    /\ unsubscribe_returned' = "true"
    /\ UNCHANGED history
    /\ UNCHANGED <<event_queue, event_delivery_log, now, pc, batch, pass,
                   attempts, webhook_requests, webhook_responses, ticks, faults,
                   publish_status>>

(***************************************************************************)
(* publishEvent: the INSERT; deliverEvent follows when scheduled_for is    *)
(* not given                                                               *)
(***************************************************************************)
PublishEvent(w, type, source, payload, sched) ==
    /\ w \in Publishers
    /\ pc[w] = "idle"
    /\ Cardinality(Busy) < MaxOverlap
    /\ Len(event_queue) < MaxEvents
    /\ Len(event_subscriptions) + Len(event_queue) < MaxRows
    /\ event_queue' = Append(event_queue,
                             NewEvent(type, source, payload, sched,
                                      DefaultMaxRetries))
    /\ IF sched = NoTime
       THEN /\ pc' = [pc EXCEPT ![w] = "deliver"]
            /\ batch' = [batch EXCEPT ![w] = <<Len(event_queue) + 1>>]
       ELSE UNCHANGED <<pc, batch>>
    /\ publish_status' = IF sched = NoTime THEN 0 ELSE Created
    /\ UNCHANGED <<unsubscribe_returned, history>>
    /\ UNCHANGED <<event_subscriptions, event_delivery_log, now, pass, attempts,
                   webhook_requests, webhook_responses, unsubscribed, ticks,
                   faults>>

(***************************************************************************)
(* The sweep callback of startBackgroundJobs: getPendingEvents(10), then   *)
(* deliverEvent for each row, one after another                            *)
(***************************************************************************)
Sweep(w) ==
    /\ w \in Sweepers
    /\ pc[w] = "idle"
    /\ \A v \in Sweepers : pc[v] = "idle" => Rank(w) <= Rank(v)
    /\ Cardinality(Busy) < MaxOverlap
    /\ LET pendingEvents == getPendingEvents(SweepLimit)
       IN  /\ pendingEvents # <<>>
           /\ batch' = [batch EXCEPT ![w] = pendingEvents]
           /\ pc' = [pc EXCEPT ![w] = "deliver"]
    /\ UNCHANGED <<event_queue, event_subscriptions, event_delivery_log, now,
                   pass, attempts, webhook_requests, webhook_responses,
                   unsubscribed, ticks, faults, publish_status,
                   unsubscribe_returned, history>>

(***************************************************************************)
(* deliverEvent                                                            *)
(***************************************************************************)
\* SELECT the event, then getSubscriptions(event.event_type): two reads, of
\* different tables, taken as one step
DeliverLoad(w) ==
    /\ pc[w] = "deliver"
    /\ LET event == event_queue[Head(batch[w])]
       IN  pass' = [pass EXCEPT ![w] =
              [retry_count |-> event.retry_count,
               max_retries |-> event.max_retries,
               subscriptions |-> getSubscriptions(event.event_type),
               failed |-> 0, rejected |-> FALSE]]
    /\ pc' = [pc EXCEPT ![w] = "processing"]
    /\ UNCHANGED <<event_queue, event_subscriptions, event_delivery_log, now,
                   batch, attempts, webhook_requests, webhook_responses,
                   unsubscribed, ticks, faults, publish_status,
                   unsubscribe_returned, history>>

\* updateEventStatus(eventId, 'processing'), then subscriptions.map(...):
\* every deliverToSubscriber call runs up to its first await, which is the
\* webhook request, unless the filter does not match
DeliverDispatch(w) ==
    /\ pc[w] = "processing"
    /\ LET e == Head(batch[w])
           matching == {s \in pass[w].subscriptions : PassesFilter(e, s)}
       IN  /\ updateEventStatus(e, "processing", NULL)
           /\ attempts' = attempts (+) SetToBag(
                 {[owner |-> w, event_id |-> e, subscription_id |-> s,
                   at |-> "sent", retry_count |-> pass[w].retry_count,
                   max_retries |-> pass[w].max_retries] : s \in matching})
           /\ webhook_requests' = webhook_requests (+) SetToBag(
                 {[event_id |-> e, subscription_id |-> s] : s \in matching})
    /\ pc' = [pc EXCEPT ![w] = "await"]
    /\ UNCHANGED <<event_subscriptions, event_delivery_log, now, batch, pass,
                   webhook_responses, unsubscribed, ticks, faults,
                   publish_status,
                   unsubscribe_returned, history>>

(***************************************************************************)
(* deliverToSubscriber, after the webhook request has been sent            *)
(***************************************************************************)
\* the promise of an attempt settles
Settle(a) == attempts' = attempts (-) SetToBag({a})

Move(a, at) ==
    attempts' = (attempts (-) SetToBag({a})) (+) SetToBag({[a EXCEPT !.at = at]})

\* what deliverEvent learns of an attempt it still waits for
Outcome(a, failed, rejected) ==
    IF a.owner \in Workers
    THEN pass' = [pass EXCEPT ![a.owner].failed = @ + (IF failed THEN 1 ELSE 0),
                              ![a.owner].rejected = @ \/ rejected]
    ELSE UNCHANGED pass

respond(a, ok) ==
    webhook_responses' = webhook_responses (+)
        SetToBag({[event_id |-> a.event_id,
                   subscription_id |-> a.subscription_id, ok |-> ok]})

\* sendWebhook answers 2xx in time and logDelivery(..., 'success') is stored
AttemptSucceeds(a) ==
    /\ a \in BagToSet(attempts)
    /\ a.at = "sent"
    /\ event_subscriptions[a.subscription_id].webhook_url # NULL
    /\ respond(a, TRUE)
    /\ logDelivery(a.event_id, a.subscription_id, "success")
    /\ Settle(a)
    /\ UNCHANGED <<event_queue, event_subscriptions, now, pc, batch, pass,
                   webhook_requests, unsubscribed, ticks, faults,
                   publish_status,
                   unsubscribe_returned, history>>

\* AttemptFails when the catch block also disables the subscription whose
\* endpoint failed
AttemptFailsAndDisables(a, ok, stored) ==
    /\ a \in BagToSet(attempts)
    /\ a.at = "sent"
    /\ respond(a, ok)
    /\ LET rejections == (IF ok THEN 1 ELSE 0) + (IF stored THEN 0 ELSE 1)
       IN  /\ MayReject(rejections)
           /\ faults' = faults + rejections
    /\ IF stored
       THEN /\ logDelivery(a.event_id, a.subscription_id, "failed")
            /\ IF a.retry_count < a.max_retries
               THEN Move(a, "retry")
               ELSE Settle(a)
       ELSE /\ Settle(a)
            /\ UNCHANGED event_delivery_log
    /\ Outcome(a, stored, ~stored)
    /\ event_subscriptions' =
          [event_subscriptions EXCEPT ![a.subscription_id].is_active = FALSE]
    /\ UNCHANGED <<event_queue, now, pc, batch,
                   webhook_requests, unsubscribed, ticks, publish_status,
                   unsubscribe_returned, history>>

\* the catch block, entered because sendWebhook threw (network error, timeout,
\* non-2xx: ok is FALSE) or because the store rejected
\* logDelivery(..., 'success'): logDelivery(..., 'failed'), then the retry test
AttemptFails(a, ok, stored) ==
    /\ a \in BagToSet(attempts)
    /\ a.at = "sent"
    /\ respond(a, ok)
    /\ LET rejections == (IF ok THEN 1 ELSE 0) + (IF stored THEN 0 ELSE 1)
       IN  /\ MayReject(rejections)
           /\ faults' = faults + rejections
    /\ IF stored
       THEN /\ logDelivery(a.event_id, a.subscription_id, "failed")
            /\ IF a.retry_count < a.max_retries
               THEN Move(a, "retry")
               ELSE Settle(a)
       ELSE /\ Settle(a)
            /\ UNCHANGED event_delivery_log
    /\ Outcome(a, stored, ~stored)
    /\ UNCHANGED <<event_queue, event_subscriptions, now, pc, batch,
                   webhook_requests, unsubscribed, ticks, publish_status,
                   unsubscribe_returned, history>>

\* scheduleRetry(event) of the catch block
ScheduleRetry(a, stored) ==
    /\ a \in BagToSet(attempts)
    /\ a.at = "retry"
    /\ stored \in StoreOutcomes
    /\ Fault(stored)
    /\ IF stored
       THEN scheduleRetry(a.event_id)
       ELSE UNCHANGED event_queue
    /\ Settle(a)
    /\ Outcome(a, FALSE, ~stored)
    /\ UNCHANGED <<event_subscriptions, event_delivery_log, now, pc, batch,
                   webhook_requests, webhook_responses, unsubscribed, ticks,
                   publish_status,
                   unsubscribe_returned, history>>

(***************************************************************************)
(* deliverEvent, after Promise.all has settled                             *)
(***************************************************************************)
\* what the worker does when deliverEvent has returned: the publish handler
\* answers 201, the sweep goes on with the next row
Return(w) ==
    /\ pass' = [pass EXCEPT ![w] = NoPass]
    /\ batch' = [batch EXCEPT ![w] = Tail(@)]
    /\ pc' = [pc EXCEPT ![w] = IF Len(batch[w]) > 1 THEN "deliver" ELSE "idle"]
    /\ publish_status' = IF w \in Publishers THEN Created ELSE publish_status
    /\ UNCHANGED <<unsubscribe_returned, history>>

\* Detach when a rejection cancelled the attempts that are still running
DetachCancels(w) ==
    attempts' = attempts (-) SetToBag(OwnAttempts(w))

\* attempts deliverEvent no longer waits for keep running
Detach(w) ==
    LET own == OwnAttempts(w)
    IN  attempts' = (attempts (-) SetToBag(own)) (+)
                    SetToBag({[a EXCEPT !.owner = "detached"] : a \in own})

\* Throw when the error ends the timer with the callback
ThrowStopsTimer(w) ==
    /\ pass' = [pass EXCEPT ![w] = NoPass]
    /\ batch' = [batch EXCEPT ![w] = <<>>]
    /\ pc' = [pc EXCEPT ![w] = IF w \in Sweepers THEN "stopped" ELSE "idle"]
    /\ Detach(w)
    /\ publish_status' = IF w \in Publishers THEN BadRequest ELSE publish_status
    /\ UNCHANGED <<unsubscribe_returned, history>>

\* what the worker does when deliverEvent has thrown: the catch block of the
\* route answers 400, the catch block of the sweep ends the callback
Throw(w) ==
    /\ pass' = [pass EXCEPT ![w] = NoPass]
    /\ batch' = [batch EXCEPT ![w] = <<>>]
    /\ pc' = [pc EXCEPT ![w] = "idle"]
    /\ Detach(w)
    /\ publish_status' = IF w \in Publishers THEN BadRequest ELSE publish_status
    /\ UNCHANGED <<unsubscribe_returned, history>>

\* the SELECT of the event or getSubscriptions rejects
DeliverLoadRejects(w) ==
    /\ pc[w] = "deliver"
    /\ MayReject(1)
    /\ faults' = faults + 1
    /\ Throw(w)
    /\ UNCHANGED <<event_queue, event_subscriptions, event_delivery_log, now,
                   webhook_requests, webhook_responses, unsubscribed, ticks>>

\* updateEventStatus(eventId, 'processing') rejects
DeliverDispatchRejects(w) ==
    /\ pc[w] = "processing"
    /\ MayReject(1)
    /\ faults' = faults + 1
    /\ Throw(w)
    /\ UNCHANGED <<event_queue, event_subscriptions, event_delivery_log, now,
                   webhook_requests, webhook_responses, unsubscribed, ticks>>

\* DeliverCompleted when deliverEvent returns without its final write
DeliverReturns(w) ==
    /\ pc[w] = "await"
    /\ ~pass[w].rejected
    /\ OwnAttempts(w) = {}
    /\ Return(w)
    /\ UNCHANGED <<event_queue, event_subscriptions, event_delivery_log, now,
                   attempts, webhook_requests, webhook_responses, unsubscribed,
                   ticks, faults>>

\* Promise.all resolved: updateEventStatus(eventId, 'completed')
DeliverCompleted(w) ==
    /\ pc[w] = "await"
    /\ ~pass[w].rejected
    /\ OwnAttempts(w) = {}
    /\ updateEventStatus(Head(batch[w]), "completed", NULL)
    /\ Return(w)
    /\ UNCHANGED <<event_subscriptions, event_delivery_log, now, attempts,
                   webhook_requests, webhook_responses, unsubscribed, ticks,
                   faults>>

\* Promise.all rejected: updateEventStatus(eventId, 'failed', error.message);
\* deliverEvent throws when that write rejects
DeliverFailed(w, stored) ==
    /\ pc[w] = "await"
    /\ pass[w].rejected
    /\ stored \in StoreOutcomes
    /\ Fault(stored)
    /\ IF stored
       THEN /\ updateEventStatus(Head(batch[w]), "failed", "store error")
            /\ Detach(w)
            /\ Return(w)
       ELSE /\ UNCHANGED event_queue
            /\ Throw(w)
    /\ UNCHANGED <<event_subscriptions, event_delivery_log, now,
                   webhook_requests, webhook_responses, unsubscribed, ticks>>

\* Promise.all resolved and updateEventStatus(eventId, 'completed') rejects:
\* the catch block writes 'failed', and deliverEvent throws when that write
\* rejects as well
DeliverCompletedRejects(w, stored) ==
    /\ pc[w] = "await"
    /\ ~pass[w].rejected
    /\ OwnAttempts(w) = {}
    /\ LET rejections == 1 + (IF stored THEN 0 ELSE 1)
       IN  /\ MayReject(rejections)
           /\ faults' = faults + rejections
    /\ IF stored
       THEN /\ updateEventStatus(Head(batch[w]), "failed", "store error")
            /\ Return(w)
            /\ UNCHANGED attempts
       ELSE /\ UNCHANGED event_queue
            /\ Throw(w)
    /\ UNCHANGED <<event_subscriptions, event_delivery_log, now,
                   webhook_requests, webhook_responses, unsubscribed, ticks>>

(***************************************************************************)
(* The clock                                                               *)
(***************************************************************************)
Tick ==
    /\ ticks < MaxTicks
    /\ ticks + faults < MaxIncidents
    /\ ticks' = ticks + 1
    /\ now' = now + TickStep
    /\ UNCHANGED <<event_queue, event_subscriptions, event_delivery_log, pc,
                   batch, pass, attempts, webhook_requests, webhook_responses,
                   unsubscribed, faults, publish_status,
                   unsubscribe_returned, history>>

Next ==
    \/ \E sub \in Subscriptions, u \in Urls : Subscribe(App, sub[1], u, sub[2])
    \/ \E s \in 1..MaxSubs : Unsubscribe(s)
    \/ \E w \in Workers, t \in EventTypes, p \in Payloads,
          sched \in {NoTime, now + ScheduleAhead} :
             PublishEvent(w, t, App, p, sched)
    \/ \E w \in Workers : Sweep(w)
    \/ \E w \in Workers : DeliverLoad(w)
    \/ \E w \in Workers : DeliverDispatch(w)
    \/ \E a \in BagToSet(attempts) : AttemptSucceeds(a)
    \/ \E a \in BagToSet(attempts), ok \in BOOLEAN, stored \in BOOLEAN :
          AttemptFails(a, ok, stored)
    \/ \E a \in BagToSet(attempts), stored \in BOOLEAN : ScheduleRetry(a, stored)
    \/ \E w \in Workers : DeliverCompleted(w)
    \/ \E w \in Workers, stored \in BOOLEAN : DeliverFailed(w, stored)
    \/ \E w \in Workers : DeliverLoadRejects(w)
    \/ \E w \in Workers : DeliverDispatchRejects(w)
    \/ \E w \in Workers, stored \in BOOLEAN : DeliverCompletedRejects(w, stored)
    \/ Tick

Spec == Init /\ [][Next]_vars

(***************************************************************************)
(* The routes with request bodies that lack fields: POST /events spreads   *)
(* req.body into publishEvent and POST /events/subscribe into subscribe,   *)
(* a field the body lacks is undefined and reaches the INSERT as NULL.     *)
(* No sweep runs in this specification.                                    *)
(***************************************************************************)
\* the payload parameter of the INSERT when the body has no payload:
\* JSON.stringify(undefined) is undefined, which is sent as NULL
NoPayload == [missing |-> TRUE]

Bodies ==
    {[event_type |-> t, payload |-> p] : t \in EventTypes, p \in Payloads}
        \cup {[event_type |-> t, payload |-> p, scheduled_for |-> ScheduleAhead] :
                 t \in EventTypes, p \in Payloads}
        \cup {[event_type |-> t] : t \in EventTypes}
        \cup {[payload |-> p] : p \in Payloads}
        \cup {[event_type |-> t, payload |-> p, source_app_id |-> a] :
                 t \in EventTypes, p \in Payloads, a \in Apps}

Field(body, name, default) ==
    IF name \in DOMAIN body THEN body[name] ELSE default

\* an event_queue without its NOT NULL constraints
NoConstraint(event_type, payload) == FALSE

\* event_type VARCHAR(100) NOT NULL, payload JSONB NOT NULL
NotNullViolation(event_type, payload) ==
    \/ event_type = NULL
    \/ payload = NoPayload

\* the INSERT of publishEvent throws: the catch block of the route answers 400
PublishRejected(w) ==
    /\ w \in Publishers
    /\ pc[w] = "idle"
    /\ publish_status' = BadRequest
    /\ UNCHANGED <<unsubscribe_returned, history>>
    /\ UNCHANGED <<event_queue, event_subscriptions, event_delivery_log, now, pc,
                   batch, pass, attempts, webhook_requests, webhook_responses,
                   unsubscribed, ticks, faults>>

\* { source_app_id: req.app.app_id, ...req.body }: the fields of the body
\* come last
BodyOverCaller(body, caller) ==
    [name \in DOMAIN body \cup {"source_app_id"} |->
        IF name \in DOMAIN body THEN body[name] ELSE caller]

\* { ...req.body, source_app_id: req.app.app_id }: the argument the route
\* passes to publishEvent
RequestEvent(body, caller) ==
    [name \in DOMAIN body \cup {"source_app_id"} |->
        IF name = "source_app_id" THEN caller ELSE body[name]]

\* POST /events of the application authenticateApp found to be caller
PublishRequest(w, caller, body) ==
    LET event == RequestEvent(body, caller)
        event_type == Field(event, "event_type", NULL)
        source_app_id == Field(event, "source_app_id", NULL)
        payload == Field(event, "payload", NoPayload)
        scheduled_for == Field(event, "scheduled_for", NoTime)
    IN  IF NotNullViolation(event_type, payload)
        THEN PublishRejected(w)
        ELSE PublishEvent(w, event_type, source_app_id, payload, scheduled_for)

\* the subscription_id values of the requests: those of the rows the table
\* can hold and one that no row has
RequestIds == 1..(MaxSubs + 1)

\* unsubscribe of any subscription_id: the UPDATE matches the row of that id
\* or none, and rowCount > 0 is returned
\* DELETE /events/subscribe/:subscriptionId of the application
\* authenticateApp found to be caller; the id alone is handed to unsubscribe
UnsubscribeRequest(caller, id) ==
    IF id \in SubIds
    THEN Unsubscribe(id)
    ELSE /\ unsubscribe_returned' = "false"
         /\ UNCHANGED history
         /\ UNCHANGED <<event_queue, event_subscriptions, event_delivery_log,
                        now, pc, batch, pass, attempts, webhook_requests,
                        webhook_responses, unsubscribed, ticks, faults,
                        publish_status>>

ApiNext ==
    \/ \E app \in Apps, sub \in Subscriptions, u \in Urls \cup {NULL} :
          Subscribe(app, sub[1], u, sub[2])
    \/ \E caller \in Apps, id \in RequestIds : UnsubscribeRequest(caller, id)
    \/ \E w \in Publishers, caller \in Apps, body \in Bodies :
          PublishRequest(w, caller, body)
    \/ \E w \in Publishers : DeliverLoad(w)
    \/ \E w \in Publishers : DeliverDispatch(w)
    \/ \E a \in BagToSet(attempts) : AttemptSucceeds(a)
    \/ \E a \in BagToSet(attempts), ok \in BOOLEAN, stored \in BOOLEAN :
          AttemptFails(a, ok, stored)
    \/ \E a \in BagToSet(attempts), stored \in BOOLEAN : ScheduleRetry(a, stored)
    \/ \E w \in Publishers : DeliverCompleted(w)
    \/ \E w \in Publishers, stored \in BOOLEAN : DeliverFailed(w, stored)
    \/ \E w \in Publishers : DeliverLoadRejects(w)
    \/ \E w \in Publishers : DeliverDispatchRejects(w)
    \/ \E w \in Publishers, stored \in BOOLEAN : DeliverCompletedRejects(w, stored)

ApiSpec == Init /\ [][ApiNext]_vars

(***************************************************************************)
(* The hub with an interruption: the process stops while handlers, sweep   *)
(* callbacks or webhook calls are running and is started again.  The       *)
(* tables stay, everything the process held in memory is gone, and the     *)
(* request that was being handled gets no response.  An interruption is    *)
(* counted with the rejected store statements.                             *)
(***************************************************************************)
Restart ==
    /\ Busy # {} \/ attempts # EmptyBag
    /\ MayReject(1)
    /\ faults' = faults + 1
    /\ pc' = [w \in Workers |-> "idle"]
    /\ batch' = [w \in Workers |-> <<>>]
    /\ pass' = [w \in Workers |-> NoPass]
    /\ attempts' = EmptyBag
    /\ UNCHANGED <<event_queue, event_subscriptions, event_delivery_log, now,
                   webhook_requests, webhook_responses, unsubscribed, ticks,
                   publish_status,
                   unsubscribe_returned, history>>

RestartNext ==
    \/ Next
    \/ Restart

RestartSpec == Init /\ [][RestartNext]_vars

(***************************************************************************)
(* getPendingEvents on its own: called with any limit on any table of      *)
(* events, at any time                                                     *)
(***************************************************************************)
Statuses == {"pending", "processing", "completed", "failed", "retrying"}

Limits == 0..MaxDueRows

\* a row of event_queue in any status, with scheduled_for NULL, now or later
Rows ==
    {[NewEvent(t, App, p, sched, DefaultMaxRetries) EXCEPT !.status = status] :
        t \in EventTypes, p \in Payloads, sched \in {NoTime, 0, TickStep},
        status \in Statuses}

Tables == UNION {[1..n -> Rows] : n \in 0..MaxDueRows}

DueInit ==
    /\ event_queue \in Tables
    /\ event_subscriptions = <<>>
    /\ event_delivery_log = EmptyBag
    /\ now = 0
    /\ pc = [w \in Workers |-> "idle"]
    /\ batch = [w \in Workers |-> <<>>]
    /\ pass = [w \in Workers |-> NoPass]
    /\ attempts = EmptyBag
    /\ webhook_requests = EmptyBag
    /\ webhook_responses = EmptyBag
    /\ unsubscribed = <<>>
    /\ ticks = 0
    /\ faults = 0
    /\ publish_status = 0
    /\ unsubscribe_returned = "none"
    /\ history = <<>>

\* const pendingEvents = await eventManager.getPendingEvents(limit)
GetPendingEvents(w, limit) ==
    /\ w \in Sweepers
    /\ pc[w] = "idle"
    /\ batch' = [batch EXCEPT ![w] = getPendingEvents(limit)]
    /\ UNCHANGED <<event_queue, event_subscriptions, event_delivery_log, now, pc,
                   pass, attempts, webhook_requests, webhook_responses,
                   unsubscribed, ticks, faults, publish_status,
                   unsubscribe_returned, history>>

DueNext ==
    \/ \E w \in Sweepers, limit \in Limits : GetPendingEvents(w, limit)
    \/ Tick

DueSpec == DueInit /\ [][DueNext]_vars

(***************************************************************************)
(* The filter check on its own: one event with any flat payload, one       *)
(* active subscription of its type with any flat filter or none, and       *)
(* sweeps that deliver the event to endpoints that answer 2xx              *)
(***************************************************************************)
FilterKeys == {"id", "status"}

\* the number 1 and the string "1"
FilterValues == {<<"number", "1">>, <<"string", "1">>}

\* the flat JSON objects over these keys and values
Objects == UNION {[keys -> FilterValues] : keys \in SUBSET FilterKeys}

\* filter_criteria as stored by subscribe for the object f
Filter(f) == [null |-> FALSE, entries |-> {<<k, f[k]>> : k \in DOMAIN f}]

Filters == {NoFilter} \cup {Filter(f) : f \in Objects}

MatchInit ==
    /\ event_queue \in
          {<<NewEvent(t, App, p, NoTime, DefaultMaxRetries)>> :
              t \in EventTypes, p \in Objects}
    /\ event_subscriptions \in
          {<<[app_id |-> App, event_type |-> t, webhook_url |-> u,
              filter_criteria |-> f,
              is_active |-> TRUE]>> :
              t \in EventTypes, u \in Urls, f \in Filters}
    /\ event_delivery_log = EmptyBag
    /\ now = 0
    /\ pc = [w \in Workers |-> "idle"]
    /\ batch = [w \in Workers |-> <<>>]
    /\ pass = [w \in Workers |-> NoPass]
    /\ attempts = EmptyBag
    /\ webhook_requests = EmptyBag
    /\ webhook_responses = EmptyBag
    /\ unsubscribed = <<NoTime>>
    /\ ticks = 0
    /\ faults = 0
    /\ publish_status = 0
    /\ unsubscribe_returned = "none"
    /\ history = <<>>

MatchNext ==
    \/ \E w \in Sweepers : Sweep(w)
    \/ \E w \in Sweepers : DeliverLoad(w)
    \/ \E w \in Sweepers : DeliverDispatch(w)
    \/ \E a \in BagToSet(attempts) : AttemptSucceeds(a)
    \/ \E w \in Sweepers : DeliverCompleted(w)

MatchSpec == MatchInit /\ [][MatchNext]_vars

(***************************************************************************)
(* getEventHistory on its own: called with any filters on any table of     *)
(* events.  created_at of a row is taken to be its event_id: the rows are  *)
(* in created_at order and no two are created at the same instant.         *)
(***************************************************************************)
DefaultLimit == 100     \* limit = 100 of getEventHistory
DefaultOffset == 0      \* offset = 0 of getEventHistory

\* a field the filters object lacks
Undefined == "undefined"

HistoryStatuses == {"pending", "completed"}

\* event_type is NOT NULL, and may be the empty string
HistoryTypes == EventTypes \cup {""}

HistoryRows ==
    {[NewEvent(t, a, p, NoTime, DefaultMaxRetries) EXCEPT !.status = status] :
        t \in HistoryTypes, a \in Apps, p \in Payloads,
        status \in HistoryStatuses}

HistoryTables == UNION {[1..n -> HistoryRows] : n \in 0..MaxHistoryRows}

\* req.query: each filter is absent or present, a present one may be the
\* empty string; dates are created_at values, limit and offset numbers
TextFilters ==
    {f \in [{"app_id", "event_type", "status"} ->
               {Undefined, "", "app-a", "order.created", "completed"}] :
        /\ f["app_id"] \in {Undefined, "", "app-a"}
        /\ f["event_type"] \in {Undefined, "", "order.created"}
        /\ f["status"] \in {Undefined, "completed"}}

\* a date that has rows before it, at it and after it
Dates == {MaxHistoryRows - 1}

Pages ==
    {<<NoTime, NoTime>>} \cup
    {<<limit, offset>> : limit \in 0..2, offset \in {NoTime, 1}}

(***************************************************************************)
(* getEventHistory                                                         *)
(***************************************************************************)
\* if (app_id), if (event_type), ...: the test of a filter before its
\* condition is added to the query
Truthy(value) == value # Undefined /\ value # ""

\* the WHERE clause the function builds
InHistory(e, text, start_date, end_date) ==
    /\ Truthy(text["app_id"]) => event_queue[e].source_app_id = text["app_id"]
    /\ Truthy(text["event_type"]) => event_queue[e].event_type = text["event_type"]
    /\ Truthy(text["status"]) => event_queue[e].status = text["status"]
    /\ start_date # NoTime => e >= start_date
    /\ end_date # NoTime => e <= end_date

\* getEventHistory ordering by created_at ASC
getEventHistoryOldestFirst(text, start_date, end_date, limit, offset) ==
    LET ids == [i \in 1..Len(event_queue) |-> i]
        found == SelectSeq(ids, LAMBDA e : InHistory(e, text, start_date, end_date))
        first == (IF offset = NoTime THEN DefaultOffset ELSE offset) + 1
        count == IF limit = NoTime THEN DefaultLimit ELSE limit
    IN  SubSeq(found, first, Min(first + count - 1, Len(found)))

\* SELECT * FROM event_queue WHERE 1=1 AND ... ORDER BY created_at DESC
\* LIMIT $n OFFSET $m
getEventHistory(text, start_date, end_date, limit, offset) ==
    LET ids == [i \in 1..Len(event_queue) |-> Len(event_queue) + 1 - i]
        found == SelectSeq(ids, LAMBDA e : InHistory(e, text, start_date, end_date))
        first == (IF offset = NoTime THEN DefaultOffset ELSE offset) + 1
        count == IF limit = NoTime THEN DefaultLimit ELSE limit
    IN  SubSeq(found, first, Min(first + count - 1, Len(found)))

HistoryInit ==
    /\ now = 0
    /\ event_queue \in HistoryTables
    /\ event_subscriptions = <<>>
    /\ event_delivery_log = EmptyBag
    /\ pc = [w \in Workers |-> "idle"]
    /\ batch = [w \in Workers |-> <<>>]
    /\ pass = [w \in Workers |-> NoPass]
    /\ attempts = EmptyBag
    /\ webhook_requests = EmptyBag
    /\ webhook_responses = EmptyBag
    /\ unsubscribed = <<>>
    /\ ticks = 0
    /\ faults = 0
    /\ publish_status = 0
    /\ unsubscribe_returned = "none"
    /\ history = <<>>

\* GET /events/history: const events = await getEventHistory(req.query)
GetEventHistory(text, start_date, end_date, limit, offset) ==
    /\ history' = getEventHistory(text, start_date, end_date, limit, offset)
    /\ UNCHANGED <<event_queue, event_subscriptions, event_delivery_log, now, pc,
                   batch, pass, attempts, webhook_requests, webhook_responses,
                   unsubscribed, ticks, faults, publish_status,
                   unsubscribe_returned>>

HistoryNext ==
    \E text \in TextFilters, start_date, end_date \in Dates \cup {NoTime},
       page \in Pages :
        GetEventHistory(text, start_date, end_date, page[1], page[2])

HistorySpec == HistoryInit /\ [][HistoryNext]_vars

(***************************************************************************)
(* The sweep over a backlog larger than its batch: more due events than    *)
(* getPendingEvents(10) returns wait in the table when the hub starts, the *)
(* oldest of them scheduled for later, one subscription matches them, the  *)
(* store accepts every statement, and the                                  *)
(* timer, the event loop and the endpoints (which answer 2xx, answer with  *)
(* an error or run into the timeout of sendWebhook) keep going             *)
(***************************************************************************)
LiveInit ==
    /\ now = 0
    /\ event_queue \in
          {[e \in 1..MaxLiveEvents |->
                NewEvent(t, App, p, IF e = 1 THEN ScheduleAhead ELSE NoTime,
                         DefaultMaxRetries)] :
              t \in EventTypes, p \in Payloads}
    /\ event_subscriptions \in
          {<<[app_id |-> App, event_type |-> t, webhook_url |-> u,
              filter_criteria |-> NoFilter, is_active |-> TRUE]>> :
              t \in EventTypes, u \in Urls}
    /\ event_delivery_log = EmptyBag
    /\ pc = [w \in Workers |-> "idle"]
    /\ batch = [w \in Workers |-> <<>>]
    /\ pass = [w \in Workers |-> NoPass]
    /\ attempts = EmptyBag
    /\ webhook_requests = EmptyBag
    /\ webhook_responses = EmptyBag
    /\ unsubscribed = <<NoTime>>
    /\ ticks = 0
    /\ faults = 0
    /\ publish_status = 0
    /\ unsubscribe_returned = "none"
    /\ history = <<>>

\* one timer: the callbacks of one setInterval follow one another here
LiveSweepers == {"sweep1"}

LiveSweep == \E w \in LiveSweepers : Sweep(w)

LiveDeliver == \E w \in LiveSweepers :
    DeliverLoad(w) \/ DeliverDispatch(w) \/ DeliverCompleted(w)

\* sendWebhook throws and the store accepts logDelivery(..., 'failed')
LiveAttemptFails(a) ==
    /\ LET failures == {r \in BagToSet(webhook_responses) : ~r.ok}
       IN  BagCardinality([r \in failures |-> webhook_responses[r]])
               < MaxLiveFailures
    /\ AttemptFails(a, FALSE, TRUE)

LiveAttempt ==
    \E a \in BagToSet(attempts) :
        AttemptSucceeds(a) \/ LiveAttemptFails(a) \/ ScheduleRetry(a, TRUE)

LiveNext ==
    \/ \E w \in LiveSweepers : Sweep(w)
    \/ \E w \in LiveSweepers : DeliverLoad(w)
    \/ \E w \in LiveSweepers : DeliverDispatch(w)
    \/ \E a \in BagToSet(attempts) : AttemptSucceeds(a)
    \/ \E a \in BagToSet(attempts) : LiveAttemptFails(a)
    \/ \E a \in BagToSet(attempts) : ScheduleRetry(a, TRUE)
    \/ \E w \in LiveSweepers : DeliverCompleted(w)
    \/ Tick

LiveSpec ==
    /\ LiveInit
    /\ [][LiveNext]_vars
    /\ WF_vars(LiveSweep)
    /\ WF_vars(LiveDeliver)
    /\ WF_vars(LiveAttempt)

(***************************************************************************)
(* Properties                                                              *)
(***************************************************************************)
Terminal == {"completed", "failed"}

Records(e, s, status) ==
    CopiesIn([event_id |-> e, subscription_id |-> s, status |-> status],
             event_delivery_log)

RecordsOf(e, status) ==
    LET count[n \in 0..Len(event_subscriptions)] ==
            IF n = 0 THEN 0 ELSE count[n - 1] + Records(e, n, status)
    IN  count[Len(event_subscriptions)]

Requests(e, s) ==
    CopiesIn([event_id |-> e, subscription_id |-> s], webhook_requests)

\* the step in which the deliverEvent call of w writes its final status
Finishes(w) == pc[w] = "await" /\ pc'[w] # "await"

\* C1: once the status of an event is completed or failed, no step changes
\* its status or its retry_count
TerminalInvariant ==
    [][\A e \in EventIds :
          event_queue[e].status \in Terminal =>
              /\ event_queue'[e].status = event_queue[e].status
              /\ event_queue'[e].retry_count = event_queue[e].retry_count]_vars

\* C2: in every reachable state, retry_count <= max_retries for every event
RetryBound ==
    \A e \in EventIds : event_queue[e].retry_count <= event_queue[e].max_retries

\* C3: every change of an event's status is one of the six edges of the
\* state machine
StatusEdges ==
    [][\A e \in EventIds :
          event_queue'[e].status # event_queue[e].status =>
              <<event_queue[e].status, event_queue'[e].status>> \in
                  {<<"pending", "processing">>, <<"retrying", "processing">>,
                   <<"processing", "completed">>, <<"processing", "failed">>,
                   <<"processing", "retrying">>, <<"retrying", "failed">>}]_vars

\* C4: a deliverEvent call leaves its event completed only if none of the
\* attempts of that call was recorded as failed
CompletedOnlyOnSuccess ==
    [][\A w \in Workers :
          (Finishes(w) /\ event_queue'[Head(batch[w])].status = "completed")
              => pass[w].failed = 0]_vars

\* C5: a deliverEvent call with a failed attempt (and the store answering
\* every statement) on an event that had retry_count < max_retries leaves the
\* event retrying, with retry_count incremented and scheduled_for five
\* minutes after a time of the call
RetryAfterFailure ==
    [][\A w \in Workers :
          (/\ Finishes(w)
           /\ faults = 0
           /\ pass[w].failed > 0
           /\ pass[w].retry_count < pass[w].max_retries)
              => LET row == event_queue'[Head(batch[w])]
                 IN  /\ row.status = "retrying"
                     /\ row.retry_count > pass[w].retry_count
                     /\ \E t \in 0..now : row.scheduled_for = t + RetryDelay]_vars

\* C6: a deliverEvent call with a failed attempt on an event whose
\* retry_count had reached max_retries leaves the event failed
FailedWhenExhausted ==
    [][\A w \in Workers :
          (/\ Finishes(w)
           /\ pass[w].failed > 0
           /\ pass[w].retry_count >= pass[w].max_retries)
              => event_queue'[Head(batch[w])].status = "failed"]_vars

\* Scenario B for event e: max_retries = 2, no store fault, one call at a
\* time, and exactly one subscription, active and unfiltered, of the type of
\* the event, seen by every deliverEvent call, whose webhook never answers 2xx
ScenarioBHolds(e) ==
    /\ event_queue[e].max_retries = 2
    /\ faults = 0
    /\ Cardinality(Busy) <= 1
    /\ Len(event_subscriptions) = 1
    /\ event_subscriptions[1].is_active
    /\ event_subscriptions[1].event_type = event_queue[e].event_type
    /\ event_subscriptions[1].filter_criteria = NoFilter
    /\ \A r \in BagToSet(webhook_responses) : ~r.ok
    /\ \A w \in Workers :
          pc[w] \in {"processing", "await"} => pass[w].subscriptions = {1}

\* C7: in Scenario B the event goes through pending, processing, retrying,
\* processing, retrying, processing, failed and nothing else (the position
\* in the sequence is the status with the retry_count), and when it has
\* failed there are exactly 3 DeliveryRecords, all failed
ScenarioB ==
    [][\A e \in EventIds :
          (ScenarioBHolds(e) /\ event_queue'[e] # event_queue[e]) =>
              LET from == <<event_queue[e].status, event_queue[e].retry_count>>
                  to == <<event_queue'[e].status, event_queue'[e].retry_count>>
              IN  /\ <<from, to>> \in
                        {<<<<"pending", 0>>, <<"processing", 0>>>>,
                         <<<<"processing", 0>>, <<"retrying", 1>>>>,
                         <<<<"retrying", 1>>, <<"processing", 1>>>>,
                         <<<<"processing", 1>>, <<"retrying", 2>>>>,
                         <<<<"retrying", 2>>, <<"processing", 2>>>>,
                         <<<<"processing", 2>>, <<"failed", 2>>>>}
                  /\ to[1] = "failed" =>
                        /\ RecordsOf(e, "failed")' = 3
                        /\ RecordsOf(e, "success")' = 0]_vars

\* C8: no two deliverEvent calls are at once between setting processing and
\* their final status write for the same event, and no two of them have an
\* attempt under way for the same event and subscription
SingleWorkerPerEvent ==
    /\ \A v, w \in Workers :
          (v # w /\ pc[v] = "await" /\ pc[w] = "await")
              => Head(batch[v]) # Head(batch[w])
    /\ \A a, b \in BagToSet(attempts) :
          (a.owner # b.owner /\ a.event_id = b.event_id)
              => a.subscription_id # b.subscription_id

\* C9: no webhook request is sent to a subscription whose is_active is false
NoDeliveryToInactive ==
    [][\A e \in EventIds, s \in SubIds :
          Requests(e, s)' > Requests(e, s)
              => event_subscriptions[s].is_active]_vars

\* the subscription s was deactivated before the event e was inserted
UnsubscribedBefore(s, e) ==
    unsubscribed[s] # NoTime /\ unsubscribed[s] < e

\* C10: an event published after unsubscribe has returned gets no attempt
\* and no DeliveryRecord for that subscription, and every deliverEvent call
\* for it sends a request to each subscription it loaded that matches
ScenarioD ==
    /\ \A e \in EventIds, s \in SubIds :
          UnsubscribedBefore(s, e) =>
              /\ Requests(e, s) = 0
              /\ Records(e, s, "success") + Records(e, s, "failed") = 0
              /\ \A a \in BagToSet(attempts) :
                    ~(a.event_id = e /\ a.subscription_id = s)
    /\ \A w \in Workers : pc[w] = "await" =>
          \A s \in getSubscriptions(event_queue[Head(batch[w])].event_type) :
              (s \in pass[w].subscriptions /\ PassesFilter(Head(batch[w]), s))
                  => Requests(Head(batch[w]), s) > 0

\* C10 happens: a call for an event published after the unsubscribe of one
\* subscription has sent its request to another, active one
ScenarioDWitness ==
    \E e \in EventIds, s, t \in SubIds :
        /\ UnsubscribedBefore(s, e)
        /\ event_subscriptions[s].event_type = event_queue[e].event_type
        /\ PassesFilter(e, s)
        /\ event_subscriptions[t].is_active
        /\ Requests(e, t) > 0
        /\ event_queue[e].status = "completed"

\* the attempts of event e to subscription s whose request is out and whose
\* response has not arrived, whichever call made them
InFlight(e, s) ==
    LET sent == {a \in BagToSet(attempts) :
                    a.event_id = e /\ a.subscription_id = s /\ a.at = "sent"}
    IN  BagCardinality([a \in sent |-> attempts[a]])

Responses(e, s, ok) ==
    CopiesIn([event_id |-> e, subscription_id |-> s, ok |-> ok],
             webhook_responses)

\* C11: a deliverEvent call sends the request to every matching subscription
\* it loaded in one step, an attempt ends only by its own response whatever
\* happens to the other attempts of the call, and a 2xx response the store
\* accepts is logged as a success record
Isolation ==
    [][/\ \A w \in Workers :
             (pc[w] = "processing" /\ pc'[w] = "await") =>
                 \A s \in pass[w].subscriptions :
                     PassesFilter(Head(batch[w]), s) =>
                         /\ Requests(Head(batch[w]), s)' =
                                Requests(Head(batch[w]), s) + 1
                         /\ InFlight(Head(batch[w]), s)' =
                                InFlight(Head(batch[w]), s) + 1
       /\ \A e \in EventIds, s \in SubIds :
             /\ InFlight(e, s)' < InFlight(e, s) =>
                   Responses(e, s, TRUE)' + Responses(e, s, FALSE)' =
                       Responses(e, s, TRUE) + Responses(e, s, FALSE) + 1
             /\ (Responses(e, s, TRUE)' > Responses(e, s, TRUE)
                    /\ faults' = faults) =>
                   Records(e, s, "success")' = Records(e, s, "success") + 1]_vars

\* C11 happens: in one call the webhook of one subscription failed and is
\* logged failed, and the webhook of another answered 2xx and is logged
\* success
IsolationWitness ==
    \E e \in EventIds, s, t \in SubIds :
        /\ s # t
        /\ Responses(e, s, FALSE) > 0 /\ Responses(e, s, TRUE) = 0
        /\ Records(e, s, "failed") > 0
        /\ Responses(e, t, TRUE) > 0 /\ Responses(e, t, FALSE) = 0
        /\ Records(e, t, "success") > 0
        /\ Requests(e, s) = 1 /\ Requests(e, t) = 1

Answered(e, s) == Responses(e, s, TRUE) + Responses(e, s, FALSE)
Logged(e, s) == Records(e, s, "success") + Records(e, s, "failed")

FilterMatches(e, s) ==
    \/ event_subscriptions[s].filter_criteria.null
    \/ matchesFilter(event_queue[e].payload,
                     event_subscriptions[s].filter_criteria)

\* C13: a subscription of another event type or whose filter_criteria does
\* not match the payload gets no request, no attempt and no DeliveryRecord
\* for the event, and a deliverEvent call none of whose loaded subscriptions
\* matches writes completed as its final status when the store accepts it
NoMatchRule ==
    [][/\ \A e \in EventIds, s \in SubIds :
             (\/ event_subscriptions[s].event_type # event_queue[e].event_type
              \/ ~FilterMatches(e, s)) =>
                 /\ Requests(e, s)' = 0
                 /\ Logged(e, s)' = 0
                 /\ \A a \in BagToSet(attempts') :
                       ~(a.event_id = e /\ a.subscription_id = s)
       /\ \A w \in Workers :
             (/\ Finishes(w)
              /\ faults' = faults
              /\ \A s \in pass[w].subscriptions : ~FilterMatches(Head(batch[w]), s)) =>
                 event_queue'[Head(batch[w])].status = "completed"]_vars

\* C13 happens: an event is completed without any request although an
\* active subscription of its type with a filter it does not match exists
NoMatchWitness ==
    \E e \in EventIds, s \in SubIds :
        /\ event_subscriptions[s].is_active
        /\ event_subscriptions[s].event_type = event_queue[e].event_type
        /\ ~FilterMatches(e, s)
        /\ event_queue[e].status = "completed"
        /\ \A t \in SubIds : Requests(e, t) = 0
        /\ faults = 0

\* the setting of scenario A for event e: one subscription, active, of the
\* type of e and without a filter, whose endpoint has answered 2xx to every
\* request so far, and a store that has accepted every statement
ScenarioAHolds(e) ==
    /\ Len(event_subscriptions) = 1
    /\ event_subscriptions[1].is_active
    /\ event_subscriptions[1].event_type = event_queue[e].event_type
    /\ event_subscriptions[1].filter_criteria = NoFilter
    /\ event_subscriptions[1].webhook_url # NULL
    /\ Responses(e, 1, FALSE) = 0
    /\ faults = 0

\* C14: in the setting of scenario A, when the deliverEvent call made by
\* publish has written its final status the event is completed and has
\* exactly one DeliveryRecord, a success, for the subscription
ScenarioA ==
    [][\A w \in Publishers, e \in EventIds :
          (/\ Finishes(w)
           /\ e = Head(batch[w])
           /\ faults' = faults
           /\ pass[w].subscriptions = {1}
           /\ ScenarioAHolds(e)) =>
              /\ event_queue'[e].status = "completed"
              /\ Records(e, 1, "success")' = 1
              /\ Records(e, 1, "failed")' = 0]_vars

\* C15: a success record stands for a 2xx response and a failed record for
\* an error, a timeout or a non-2xx response: a pair of event and
\* subscription has as many success records as 2xx responses and no more
\* failed records than other outcomes
RecordedAsAnswered ==
    \A e \in EventIds, s \in SubIds :
        /\ Records(e, s, "success") = Responses(e, s, TRUE)
        /\ Records(e, s, "failed") <= Responses(e, s, FALSE)

\* C16: publish has answered its caller before a webhook request of the
\* event it inserted is waiting for its response
PublishReturnsBeforeDelivery ==
    \A a \in BagToSet(attempts) :
        (a.owner \in Publishers /\ a.at = "sent") => publish_status # 0

\* C17: once the INSERT of publish has succeeded, no step makes the handler
\* answer an error
PublishSucceedsAfterInsert ==
    [][\A w \in Publishers :
          pc[w] # "idle" => publish_status' # BadRequest]_vars

\* C18: a POST /events that is answered 400 without a delivery running
\* leaves the store, the attempts and the requests as they were; no event
\* without event_type or payload exists; and a step that adds to event_queue
\* adds exactly one row, pending with retry_count 0, and changes no other
PublishValidation ==
    [][/\ (\A w \in Publishers : pc[w] = "idle")
             /\ publish_status' # publish_status
             /\ publish_status' = BadRequest =>
                 /\ event_queue' = event_queue
                 /\ attempts' = attempts
                 /\ webhook_requests' = webhook_requests
       /\ \A e \in 1..Len(event_queue') :
             /\ event_queue'[e].event_type # NULL
             /\ event_queue'[e].payload # NoPayload
       /\ event_queue' # event_queue /\ Len(event_queue') # Len(event_queue) =>
             /\ Len(event_queue') = Len(event_queue) + 1
             /\ SubSeq(event_queue', 1, Len(event_queue)) = event_queue
             /\ event_queue'[Len(event_queue')].status = "pending"
             /\ event_queue'[Len(event_queue')].retry_count = 0
             /\ publish_status' # BadRequest]_vars

\* C18 happens: a complete request has inserted its event, and a later one
\* without event_type or payload was answered 400 by the INSERT
PublishValidationWitness ==
    /\ publish_status = BadRequest
    /\ faults = 0
    /\ Len(event_queue) = 1
    /\ event_queue[1].max_retries = DefaultMaxRetries
    /\ event_queue[1].status = "completed"

\* C19: every active subscription has a webhook_url
ActiveSubscriptionHasUrl ==
    \A s \in SubIds :
        event_subscriptions[s].is_active =>
            event_subscriptions[s].webhook_url # NULL

InBatch(w, e) == \E i \in 1..Len(batch[w]) : batch[w][i] = e

\* published for a later time that has not come, and never rescheduled
Deferred(e) ==
    /\ event_queue[e].scheduled_for # NoTime
    /\ event_queue[e].retry_count = 0
    /\ event_queue[e].scheduled_for > now

\* C20: an event whose scheduled_for lies ahead is pending, with no request
\* and no DeliveryRecord, and no worker holds it; publish hands the event it
\* inserts to deliverEvent exactly when scheduled_for is null; and an event
\* with a scheduled_for is only ever taken by a sweep, at or after that time
ScheduledDelivery ==
    [][/\ \A e \in 1..Len(event_queue') :
             Deferred(e)' =>
                 /\ event_queue'[e].status = "pending"
                 /\ \A s \in 1..Len(event_subscriptions') :
                       Requests(e, s)' = 0 /\ Logged(e, s)' = 0
                 /\ \A w \in Workers : ~InBatch(w, e)'
       /\ Len(event_queue') > Len(event_queue) =>
             IF event_queue'[Len(event_queue')].scheduled_for = NoTime
             THEN \E w \in Publishers :
                     /\ pc[w] = "idle"
                     /\ pc'[w] = "deliver"
                     /\ batch'[w] = <<Len(event_queue')>>
             ELSE pc' = pc /\ batch' = batch /\ publish_status' = Created
       /\ \A w \in Workers, e \in EventIds :
             (/\ ~InBatch(w, e)
              /\ InBatch(w, e)'
              /\ event_queue[e].scheduled_for # NoTime) =>
                 /\ w \in Sweepers
                 /\ event_queue[e].scheduled_for <= now]_vars

\* C20 happens: an event published for a later time was delivered by a
\* sweep after the clock reached that time
ScheduledDeliveryWitness ==
    \E e \in EventIds, s \in SubIds :
        /\ event_queue[e].scheduled_for = ScheduleAhead
        /\ event_queue[e].retry_count = 0
        /\ event_queue[e].status = "completed"
        /\ now >= event_queue[e].scheduled_for
        /\ Records(e, s, "success") = 1

\* due as the specification defines it
DueNow(e) ==
    /\ event_queue[e].status \in {"pending", "retrying"}
    /\ \/ event_queue[e].scheduled_for = NoTime
       \/ event_queue[e].scheduled_for <= now

\* r is the list of the due events, oldest first, cut after limit
IsDueList(r, limit) ==
    /\ \A i \in 1..Len(r) : r[i] \in EventIds /\ DueNow(r[i])
    /\ \A i, j \in 1..Len(r) : i < j => r[i] < r[j]
    /\ Len(r) = Min(limit, Cardinality({e \in EventIds : DueNow(e)}))
    /\ \A e \in EventIds :
          (DueNow(e) /\ \A i \in 1..Len(r) : r[i] # e) =>
              \A i \in 1..Len(r) : r[i] < e

\* C21: for every limit getPendingEvents returns exactly the events that
\* are pending or retrying with scheduled_for null or not later than now, in
\* the order of creation, cut after limit events; and the call changes
\* nothing but the caller's list
DueEventsExact ==
    /\ [](\A limit \in Limits : IsDueList(getPendingEvents(limit), limit))
    /\ [][\A w \in Sweepers :
             batch'[w] # batch[w] =>
                 /\ \E limit \in Limits : batch'[w] = getPendingEvents(limit)
                 /\ UNCHANGED <<event_queue, event_subscriptions,
                                event_delivery_log, now>>]_vars

\* C21 happens: a call with limit 2 has skipped a completed event between
\* two due ones, and a call with limit 1 has returned the oldest alone
DueEventsWitness ==
    /\ Len(event_queue) = 3
    /\ event_queue[2].status = "completed"
    /\ event_queue[1].status = "retrying"
    /\ event_queue[3].scheduled_for = NoTime
    /\ batch["sweep1"] = <<1, 3>>
    /\ batch["sweep2"] = <<1>>
    /\ ticks = 0

\* a deliverEvent call for event e is running and has written 'processing'
InProgress(e) ==
    \E w \in Workers : pc[w] = "await" /\ Head(batch[w]) = e

\* C22: an event in processing is being delivered by a running deliverEvent
\* call, which will write its next status, or it is among the events
\* getPendingEvents returns, so that a sweep takes it again
ProcessingIsRecovered ==
    \A e \in EventIds :
        event_queue[e].status = "processing" =>
            \/ InProgress(e)
            \/ \E i \in 1..Len(getPendingEvents(SweepLimit)) :
                  getPendingEvents(SweepLimit)[i] = e

\* where a handler or a sweep callback that has begun and not ended stands
Running == {"deliver", "processing", "await"}

\* the step in which the sweep callback w ends on a rejected store statement
SweepErrs(w) ==
    /\ w \in Sweepers
    /\ pc[w] \in Running
    /\ pc'[w] \notin Running
    /\ faults' > faults

\* C23: whatever errors came before, while an event is due and room is left
\* among the running callbacks a sweep callback that is not running can
\* start; and the step in which a sweep callback ends on an error leaves it
\* idle and touches neither the other workers nor the publish response
TimerSurvivesErrors ==
    /\ []((/\ getPendingEvents(SweepLimit) # <<>>
           /\ Cardinality({w \in Workers : pc[w] \in Running}) < MaxOverlap
           /\ \E w \in Sweepers : pc[w] \notin Running) =>
              ENABLED (\E w \in Sweepers : Sweep(w)))
    /\ [][\A w \in Sweepers :
             SweepErrs(w) =>
                 /\ pc'[w] = "idle"
                 /\ publish_status' = publish_status
                 /\ \A v \in Workers \ {w} :
                       /\ pc'[v] = pc[v]
                       /\ batch'[v] = batch[v]
                       /\ pass'[v] = pass[v]]_vars

\* C23 happens: deliverEvent threw in a sweep for the only event there is,
\* which nobody ever published through the route, and a later sweep has
\* taken the event again
TimerSurvivesWitness ==
    /\ faults = 1
    /\ Len(event_queue) = 1
    /\ event_subscriptions = <<>>
    /\ event_queue[1].status = "pending"
    /\ publish_status = 0
    /\ \E w \in Sweepers : pc[w] = "deliver" /\ batch[w] = <<1>>

\* C24: when deliverEvent throws for one event of a sweep batch, the sweep
\* goes on with the rest of the batch
BatchSurvivesThrow ==
    [][\A w \in Sweepers :
          (/\ pc[w] \in Running
           /\ Len(batch[w]) > 1
           /\ faults' > faults
           /\ pass'[w] = NoPass) =>
              /\ pc'[w] = "deliver"
              /\ batch'[w] = Tail(batch[w])]_vars

\* the Matcher of the specification: no filter matches every payload, a
\* filter matches the payloads that hold each of its keys with its value
Matches(payload, criteria) ==
    \/ criteria.null
    \/ criteria.entries \subseteq {<<k, payload[k]>> : k \in DOMAIN payload}

\* C25: the filter check of deliverToSubscriber passes exactly when the
\* Matcher matches, a dispatch sends its request to exactly the loaded
\* subscriptions whose filter matches, and checking a filter changes neither
\* the payload nor the subscription nor the delivery log
MatcherExact ==
    /\ [](\A e \in EventIds, s \in SubIds :
             PassesFilter(e, s) <=>
                 Matches(event_queue[e].payload,
                         event_subscriptions[s].filter_criteria))
    /\ [][\A w \in Workers, e \in EventIds :
             (pc[w] = "processing" /\ pc'[w] = "await" /\ e = Head(batch[w])) =>
                 /\ \A s \in pass[w].subscriptions :
                       Requests(e, s)' > Requests(e, s) <=>
                           Matches(event_queue[e].payload,
                                   event_subscriptions[s].filter_criteria)
                 /\ event_queue'[e].payload = event_queue[e].payload
                 /\ UNCHANGED <<event_subscriptions, event_delivery_log>>]_vars

\* C25 happens: the payload holds the number 1 under id, the filter asks
\* for the string "1" under id, and the event is completed without a request
MatcherWitness ==
    /\ Len(event_queue) = 1
    /\ Len(event_subscriptions) = 1
    /\ "id" \in DOMAIN event_queue[1].payload
    /\ event_queue[1].payload["id"] = <<"number", "1">>
    /\ event_subscriptions[1].filter_criteria.entries = {<<"id", <<"string", "1">>>>}
    /\ event_queue[1].status = "completed"
    /\ Requests(1, 1) = 0

\* C26: subscribe creates or reactivates: no two active subscriptions have
\* the same app_id, event_type, webhook_url and filter_criteria, and a
\* subscription that was made inactive is not left inactive beside a later
\* one with the same app_id, event_type and webhook_url
SubscribeCreatesOrReactivates ==
    \A s, t \in SubIds :
        (/\ s < t
         /\ event_subscriptions[s].app_id = event_subscriptions[t].app_id
         /\ event_subscriptions[s].event_type = event_subscriptions[t].event_type
         /\ event_subscriptions[s].webhook_url = event_subscriptions[t].webhook_url)
        => /\ event_subscriptions[s].is_active
           /\ ~(/\ event_subscriptions[t].is_active
                /\ event_subscriptions[s].filter_criteria =
                       event_subscriptions[t].filter_criteria)

\* the rows of event_subscriptions that a step changes
ChangedRows ==
    {s \in SubIds : event_subscriptions'[s] # event_subscriptions[s]}

EngineState ==
    <<event_queue, event_delivery_log, pc, batch, pass, attempts,
      webhook_requests, webhook_responses>>

\* C28: a step that changes event_subscriptions adds one row or makes one
\* row inactive and is no step of publish, sweep or delivery: events,
\* delivery records, calls and attempts are as before it
EngineNeverMutatesSubscriptions ==
    [][event_subscriptions' # event_subscriptions =>
          /\ \/ /\ Len(event_subscriptions') = Len(event_subscriptions) + 1
                /\ \A s \in SubIds : event_subscriptions'[s] = event_subscriptions[s]
             \/ /\ Len(event_subscriptions') = Len(event_subscriptions)
                /\ \E s \in SubIds :
                      event_subscriptions' =
                          [event_subscriptions EXCEPT ![s].is_active = FALSE]
          /\ UNCHANGED EngineState]_vars

\* C28 happens: a subscription is active and as subscribed after a call
\* delivered an event to it, another call failed and a retry was scheduled
EngineWitness ==
    \E s \in SubIds, e, f \in EventIds :
        /\ event_subscriptions[s].is_active
        /\ Records(e, s, "success") > 0
        /\ Records(f, s, "failed") > 0
        /\ event_queue[f].retry_count > 0

\* C29: the delivery log is append-only: every step leaves each
\* DeliveryRecord in the log as often as it was there, whatever happens to
\* its event or its subscription
AppendOnlyLog ==
    [][\A r \in BagToSet(event_delivery_log) :
          CopiesIn(r, event_delivery_log') >= CopiesIn(r, event_delivery_log)]_vars

\* C29 happens: a subscription that was unsubscribed has the record of a
\* failed attempt and, from a later attempt for the same event, the record
\* of a successful one
AppendOnlyWitness ==
    \E s \in SubIds, e \in EventIds :
        /\ ~event_subscriptions[s].is_active
        /\ Records(e, s, "failed") > 0
        /\ Records(e, s, "success") > 0

\* C30: processed_at of an event is set exactly while its status is
\* completed or failed
ProcessedAtIffTerminal ==
    \A e \in EventIds :
        event_queue[e].processed_at # NoTime <=> event_queue[e].status \in Terminal

\* C31: when a deliverEvent call in which an attempt logged a failure ends,
\* error_message of its event is not null
LastErrorStored ==
    [][\A w \in Workers, e \in EventIds :
          (Finishes(w) /\ e = Head(batch[w]) /\ pass[w].failed > 0) =>
              event_queue'[e].error_message # NULL]_vars

\* C32: the event a POST /events request stores has the caller's app id as
\* its source_app_id whatever the body says, so requests of one caller that
\* differ in the body's source_app_id only store the same value; the rows
\* stored before keep theirs
SourceIsCaller ==
    /\ [](\A e \in EventIds : event_queue[e].source_app_id \in Apps)
    /\ [][\A w \in Publishers, caller \in Apps, body \in Bodies :
             (PublishRequest(w, caller, body) /\ event_queue' # event_queue) =>
                 /\ Len(event_queue') = Len(event_queue) + 1
                 /\ event_queue'[Len(event_queue')].source_app_id = caller
                 /\ \A e \in EventIds :
                       event_queue'[e].source_app_id = event_queue[e].source_app_id]_vars

\* C32 happens: the events of two callers are stored and answered with 201,
\* each under the app id of its caller
SourceIsCallerWitness ==
    /\ publish_status = Created
    /\ \E e, f \in EventIds :
          /\ event_queue[e].source_app_id = "app-a"
          /\ event_queue[f].source_app_id = "app-b"

\* the events that satisfy the filters of which Given holds, created_at
\* being the event_id
Satisfying(Given(_), text, start_date, end_date) ==
    {e \in EventIds :
        /\ Given(text["app_id"]) => event_queue[e].source_app_id = text["app_id"]
        /\ Given(text["event_type"]) => event_queue[e].event_type = text["event_type"]
        /\ Given(text["status"]) => event_queue[e].status = text["status"]
        /\ start_date # NoTime => start_date <= e
        /\ end_date # NoTime => e <= end_date}

\* rows is the page of found: newest first, after the offset newest ones,
\* as many as limit allows
IsPage(rows, found, limit, offset) ==
    LET Newer(e) == Cardinality({f \in found : f > e})
        skip == IF offset = NoTime THEN 0 ELSE offset
        most == IF limit = NoTime THEN 100 ELSE limit
    IN  /\ \A i \in 1..Len(rows) : rows[i] \in found
        /\ \A i, j \in 1..Len(rows) : i < j => rows[i] > rows[j]
        /\ \A e \in found :
              (\E i \in 1..Len(rows) : rows[i] = e) <=>
                  (skip <= Newer(e) /\ Newer(e) < skip + most)

\* a filter that is in the filters object
Supplied(value) == value # Undefined

\* a filter that is in the filters object and is not the empty string
SuppliedNotEmpty(value) == value # Undefined /\ value # ""

\* C33 as the specification states it: getHistory returns the page of the
\* events that satisfy every supplied filter
HistoryOfSuppliedFilters ==
    \A text \in TextFilters, start_date, end_date \in Dates \cup {NoTime},
       page \in Pages :
        IsPage(getEventHistory(text, start_date, end_date, page[1], page[2]),
               Satisfying(Supplied, text, start_date, end_date),
               page[1], page[2])

\* C33, amended: getHistory returns the page of the events that satisfy
\* every filter that is supplied and not empty, newest first, skipping
\* offset and returning at most limit; a filter that is omitted or empty
\* does not restrict the result; the query changes nothing but its result
HistoryOfNonEmptyFilters ==
    /\ [](\A text \in TextFilters, start_date, end_date \in Dates \cup {NoTime},
             page \in Pages :
              IsPage(getEventHistory(text, start_date, end_date, page[1], page[2]),
                     Satisfying(SuppliedNotEmpty, text, start_date, end_date),
                     page[1], page[2]))
    /\ [](history # <<>> =>
             \E text \in TextFilters, start_date, end_date \in Dates \cup {NoTime},
                page \in Pages :
                 IsPage(history,
                        Satisfying(SuppliedNotEmpty, text, start_date, end_date),
                        page[1], page[2]))
    /\ [][history' # history =>
             UNCHANGED <<event_queue, event_subscriptions, event_delivery_log>>]_vars

\* C33 happens: of three events, two of which are completed, a query has
\* returned the second newest completed one only
HistoryWitness ==
    /\ Len(event_queue) = 3
    /\ event_queue[1].status = "completed"
    /\ event_queue[2].status = "pending"
    /\ event_queue[3].status = "completed"
    /\ history = <<1>>

\* C34: every event that is due eventually has a terminal status, also the
\* events beyond the first batch of the sweep
DueEventsFinish ==
    \A e \in 1..MaxLiveEvents :
        (e \in EventIds /\ DueNow(e)) ~>
            (e \in EventIds /\ event_queue[e].status \in Terminal)

\* C34 happens: the event the first batch had no room for is completed, by
\* a later sweep than the events of the first batch
DueEventsFinishWitness ==
    /\ Len(event_queue) > SweepLimit
    /\ \A e \in EventIds : event_queue[e].status \in Terminal
    /\ \E e \in EventIds : event_queue[e].retry_count > 0

\* C35: the batch of a sweep holds at most SweepLimit events, all due when
\* it was read, oldest first; the sweep hands its head to deliverEvent,
\* whose attempts are for that event, and goes on to the rest, in that
\* order, only when that call has ended
SweepInOrder ==
    /\ [](\A w \in Sweepers :
             /\ Len(batch[w]) <= SweepLimit
             /\ \A i, j \in 1..Len(batch[w]) : i < j => batch[w][i] < batch[w][j]
             /\ pc[w] \in {"deliver", "processing", "await"} => batch[w] # <<>>)
    /\ [][\A w \in Sweepers :
             /\ (batch[w] = <<>> /\ batch'[w] # <<>>) =>
                   /\ \A i \in 1..Len(batch'[w]) : DueNow(batch'[w][i])
                   /\ pc'[w] = "deliver"
             /\ (batch[w] # <<>> /\ batch'[w] # batch[w]) =>
                   /\ batch'[w] = Tail(batch[w]) \/ batch'[w] = <<>>
                   /\ pc[w] \in {"deliver", "processing", "await"}
                   /\ OwnAttempts(w)' = {}
                   /\ pass'[w] = NoPass
             /\ \A a \in OwnAttempts(w)' : a.event_id = Head(batch[w])]_vars

\* C35 happens: of eleven due events the sweep took the ten oldest, has
\* delivered nine of them and is at the tenth; the eleventh waits
SweepInOrderWitness ==
    /\ Len(event_queue) = SweepLimit + 1
    /\ \E w \in Sweepers : pc[w] = "await" /\ batch[w] = <<SweepLimit>>
    /\ \A e \in 1..(SweepLimit - 1) : event_queue[e].status = "completed"
    /\ event_queue[SweepLimit + 1].status = "pending"
    /\ event_queue[SweepLimit + 1].retry_count = 0

\* the webhook requests sent for event e so far, by any call
RequestsFor(e) ==
    LET sent == {r \in BagToSet(webhook_requests) : r.event_id = e}
    IN  BagCardinality([r \in sent |-> webhook_requests[r]])

\* C36: while the only deliverEvent call that has sent requests for an
\* event waits for its attempts, retry_count of the event is at most one
\* above what the call read
OneRetryPerPass ==
    \A w \in Workers :
        (/\ pc[w] = "await"
         /\ RequestsFor(Head(batch[w])) =
                Cardinality({s \in pass[w].subscriptions :
                                PassesFilter(Head(batch[w]), s)}))
        => event_queue[Head(batch[w])].retry_count <= pass[w].retry_count + 1

\* C37: in the step in which a deliverEvent call returns after its final
\* status write, none of its attempts is still running
PassEndsAfterAttempts ==
    [][\A w \in Workers :
          (Finishes(w) /\ faults' = faults) => OwnAttempts(w) = {}]_vars

\* C38: an event that is retrying has been retried at least once and has a
\* scheduled_for; the status is only written together with the increment of
\* retry_count and a scheduled_for RetryDelay ahead
RetryingIsScheduled ==
    /\ [](\A e \in EventIds :
             event_queue[e].status = "retrying" =>
                 /\ event_queue[e].retry_count >= 1
                 /\ event_queue[e].scheduled_for # NoTime)
    /\ [][\A e \in EventIds :
             (event_queue[e].status # "retrying" /\ event_queue'[e].status = "retrying")
                 => /\ event_queue'[e].retry_count = event_queue[e].retry_count + 1
                    /\ event_queue'[e].scheduled_for = now + RetryDelay]_vars

\* C38 happens: an event is retrying after its second retry was scheduled
\* and no call is handling it
RetryingWitness ==
    /\ Busy = {}
    /\ attempts = EmptyBag
    /\ \E e \in EventIds :
          /\ event_queue[e].status = "retrying"
          /\ event_queue[e].retry_count = 2
          /\ event_queue[e].scheduled_for = now + RetryDelay

\* C39: an unsubscribe request of an application for a subscription of
\* another application leaves is_active of that subscription as it is
UnsubscribeOwnOnly ==
    [][\A caller \in Apps, id \in RequestIds :
          (/\ UnsubscribeRequest(caller, id)
           /\ id \in SubIds
           /\ event_subscriptions[id].app_id # caller)
          => event_subscriptions'[id].is_active = event_subscriptions[id].is_active]_vars

====
